---- MODULE Spec2Model ----
(***************************************************************************)
(* Model of ngsg_reference.py: the XLSX (name, sequence) table to FASTA     *)
(* converter and its four-pass FASTA validator.                             *)
(*                                                                          *)
(* A Python str is modelled as a sequence of Unicode code points, so that   *)
(* ord(c) is the element itself; a list of str is a sequence of those.      *)
(***************************************************************************)
EXTENDS Integers, Sequences, FiniteSets, TLC

VARIABLES pc, legit_file, table, illegal_chars_seen, format_as_fasta,
          locators, header_blank, fasta_contents, origin, fasta_str,
          validated, file_content, issues, okay_to_save

vars == <<pc, legit_file, table, illegal_chars_seen, format_as_fasta,
          locators, header_blank, fasta_contents, origin, fasta_str,
          validated, file_content, issues, okay_to_save>>

(***************************************************************************)
(* Bounds of the model.                                                     *)
(***************************************************************************)
MaxRows == 2
MaxLen == 4

(***************************************************************************)
(* Python str primitives used by the program.                               *)
(***************************************************************************)
\* characters for which str.isspace() holds, i.e. what str.strip() removes
WhiteSpace == {9, 10, 11, 12, 13, 28, 29, 30, 31, 32, 133, 160, 5760,
               8232, 8233, 8239, 8287, 12288} \cup (8192..8202)

\* line boundaries recognised by str.splitlines()
LineBoundaries == {10, 11, 12, 13, 28, 29, 30, 133, 8232, 8233}

RECURSIVE lstrip(_)
lstrip(s) ==
    IF s # <<>> /\ Head(s) \in WhiteSpace THEN lstrip(Tail(s)) ELSE s

RECURSIVE rstrip(_)
rstrip(s) ==
    IF s # <<>> /\ s[Len(s)] \in WhiteSpace
    THEN rstrip(SubSeq(s, 1, Len(s) - 1)) ELSE s

\* str.strip()
strip(s) == rstrip(lstrip(s))

\* str.replace(ch, "") for a one-character ch
remove(s, ch) == SelectSeq(s, LAMBDA c : c # ch)

\* str.lower(), on the code points up to U+0100
lower_char(c) ==
    IF c \in 65..90 \/ (c \in 192..222 /\ c # 215) THEN c + 32
    ELSE IF c = 256 THEN 257 ELSE c

lower(s) == [i \in DOMAIN s |-> lower_char(s[i])]

\* str.splitlines(): "\r\n" is one boundary, and no final empty line is
\* produced for a text that ends with a boundary
RECURSIVE splitlines_from(_, _, _, _)
splitlines_from(s, i, cur, acc) ==
    IF i > Len(s) THEN (IF cur = <<>> THEN acc ELSE Append(acc, cur))
    ELSE IF s[i] \in LineBoundaries
         THEN splitlines_from(s,
                  IF s[i] = 13 /\ i < Len(s) /\ s[i + 1] = 10
                  THEN i + 2 ELSE i + 1,
                  <<>>, Append(acc, cur))
         ELSE splitlines_from(s, i + 1, Append(cur, s[i]), acc)

splitlines(s) == splitlines_from(s, 1, <<>>, <<>>)

\* '\n'.join(lines)
RECURSIVE join(_)
join(lines) ==
    IF lines = <<>> THEN <<>>
    ELSE IF Len(lines) = 1 THEN lines[1]
    ELSE lines[1] \o <<10>> \o join(Tail(lines))

\* line.startswith(">")
startswith_gt(line) == line # <<>> /\ line[1] = 62

\* " " in line or "\t" in line
has_gap(line) == \E i \in DOMAIN line : line[i] = 32 \/ line[i] = 9

(***************************************************************************)
(* The FASTA validator: four checks appending to one shared issue list.     *)
(* An issue is the dict {'Issue Number', 'Line Number', 'Issue'}; the       *)
(* formatted message is kept as its fixed text and the two values that the  *)
(* f-string interpolates (0 where the message has none).                    *)
(***************************************************************************)
MsgNonAscii == "Invalid character in sequence header"
MsgInvalid == "Invalid character in sequence"
MsgGap == "Gap (space or tab) in sequence"
MsgBlank == "Blank line found"

\* mutant of issue: the running number is taken before the append
issue_numbered_from_zero(acc, lineno, text, char, position) ==
    [IssueNumber |-> Len(acc),
     LineNumber |-> lineno,
     Issue |-> [text |-> text, char |-> char, position |-> position]]

issue(acc, lineno, text, char, position) ==
    [IssueNumber |-> Len(acc) + 1,
     LineNumber |-> lineno,
     Issue |-> [text |-> text, char |-> char, position |-> position]]

\* ord(char) > 127
is_non_ascii(char) == char > 127

\* char in "AaTtCcGgNn()"
is_valid_char(char) ==
    char \in {65, 97, 84, 116, 67, 99, 71, 103, 78, 110, 40, 41}

\* mutant of is_skipped: header lines are not skipped
is_skipped_blank_only(line) == strip(line) = <<>>

\* line.startswith(">") or not line.strip(): the lines the sequence checks skip
is_skipped(line) == startswith_gt(line) \/ strip(line) = <<>>

\* not line.strip()
is_blank(line) == strip(line) = <<>>

\* mutant of clean_sequence: spaces and tabs inside the line are kept
clean_sequence_strip_only(line) == strip(line)

\* line.strip().replace(" ", "").replace("\t", "")
clean_sequence(line) == remove(remove(strip(line), 32), 9)

\* mutant of non_ascii_line_number: the 1-based index, as the other checks
non_ascii_line_number_one_based(n) == n + 1

\* the line number check_non_ascii reports for the line at 0-based index n
non_ascii_line_number(n) == n

\* the line number the other three checks report for 0-based index n
line_number(n) == n + 1

\* inner loop of check_non_ascii over the characters of one line
RECURSIVE non_ascii_chars(_, _, _, _)
non_ascii_chars(line, line_num, idx, acc) ==
    IF idx > Len(line) THEN acc
    ELSE non_ascii_chars(line, line_num, idx + 1,
             IF is_non_ascii(line[idx])
             THEN Append(acc, issue(acc, non_ascii_line_number(line_num),
                                       MsgNonAscii, line[idx], idx))
             ELSE acc)

RECURSIVE non_ascii_lines(_, _, _)
non_ascii_lines(lines, n, acc) ==
    IF n > Len(lines) THEN acc
    ELSE non_ascii_lines(lines, n + 1,
                         non_ascii_chars(lines[n], n - 1, 1, acc))

check_non_ascii(content, acc) ==
    non_ascii_lines(splitlines(content), 1, acc)

\* inner loop of check_valid_sequence over the cleaned sequence
RECURSIVE valid_sequence_chars(_, _, _, _)
valid_sequence_chars(sequence, line_num, idx, acc) ==
    IF idx > Len(sequence) THEN acc
    ELSE valid_sequence_chars(sequence, line_num, idx + 1,
             IF ~is_valid_char(sequence[idx])
             THEN Append(acc, issue(acc, line_number(line_num),
                                       MsgInvalid, sequence[idx], idx))
             ELSE acc)

RECURSIVE valid_sequence_lines(_, _, _)
valid_sequence_lines(lines, n, acc) ==
    IF n > Len(lines) THEN acc
    ELSE valid_sequence_lines(lines, n + 1,
             IF is_skipped(lines[n]) THEN acc
             ELSE valid_sequence_chars(clean_sequence(lines[n]), n - 1, 1,
                                       acc))

check_valid_sequence(content, acc) ==
    valid_sequence_lines(splitlines(content), 1, acc)

RECURSIVE gaps_lines(_, _, _)
gaps_lines(lines, n, acc) ==
    IF n > Len(lines) THEN acc
    ELSE gaps_lines(lines, n + 1,
             IF ~is_skipped(lines[n]) /\ has_gap(lines[n])
             THEN Append(acc, issue(acc, line_number(n - 1),
                                       MsgGap, 0, 0))
             ELSE acc)

check_gaps(content, acc) == gaps_lines(splitlines(content), 1, acc)

RECURSIVE blank_lines(_, _, _)
blank_lines(lines, n, acc) ==
    IF n > Len(lines) THEN acc
    ELSE blank_lines(lines, n + 1,
             IF is_blank(lines[n])
             THEN Append(acc, issue(acc, line_number(n - 1),
                                       MsgBlank, 0, 0))
             ELSE acc)

check_blank_lines(content, acc) ==
    blank_lines(splitlines(content), 1, acc)

check_fasta_file(content) ==
    check_blank_lines(content,
        check_gaps(content,
            check_valid_sequence(content,
                check_non_ascii(content, <<>>))))

(***************************************************************************)
(* main(): screening of the raw cells.                                      *)
(***************************************************************************)
\* mutant of is_illegal: the threshold is off by one
is_illegal_above_256(c) == c > 256

\* ord(c) > 255
is_illegal(c) == c > 255

\* one st.write(...) of the screening loop; i, j, k are already the 1-based
\* values i+1, j+1, k+1 that the message shows
locator(i, j, k, c, col) ==
    [row |-> i, column |-> j, character |-> k, symbol |-> c, cell |-> col]

RECURSIVE screen_chars(_, _, _, _, _)
screen_chars(col, i, j, k, acc) ==
    IF k > Len(col) THEN acc
    ELSE screen_chars(col, i, j, k + 1,
             IF is_illegal(col[k])
             THEN Append(acc, locator(i, j, k, col[k], col)) ELSE acc)

RECURSIVE screen_cols(_, _, _, _)
screen_cols(row, i, j, acc) ==
    IF j > Len(row) THEN acc
    ELSE screen_cols(row, i, j + 1, screen_chars(row[j], i, j, 1, acc))

RECURSIVE screen_rows(_, _, _)
screen_rows(t, i, acc) ==
    IF i > Len(t) THEN acc
    ELSE screen_rows(t, i + 1, screen_cols(t[i], i, 1, acc))

screen(t) == screen_rows(t, 1, <<>>)

(***************************************************************************)
(* main(): formatting of the table as FASTA lines.                          *)
(***************************************************************************)
\* mutant of cell_text: "none" is not normalised to the empty text
cell_text_keep_none(col) == strip(col)

\* txt = col.strip(); if txt.lower() == 'none': txt = ''
cell_text(col) ==
    IF lower(strip(col)) = <<110, 111, 110, 101>> THEN <<>> ELSE strip(col)

\* j % 2 == 0, for the 1-based column index j of the model
is_name_column(j) == (j - 1) % 2 = 0

\* name_line = '>' + txt
name_line(txt) == <<62>> \o txt

\* body of the loop over the cells of a row; origin records, for each line
\* appended to fasta_contents, the (row, column) of the cell it came from
format_cell(acc, i, j, col) ==
    LET txt == cell_text(col) IN
    IF is_name_column(j)
    THEN IF txt = <<>>
         THEN [acc EXCEPT !.header_blank = TRUE]
         ELSE [contents |-> Append(acc.contents, name_line(txt)),
               origin |-> Append(acc.origin, <<i, j>>),
               header_blank |-> FALSE]
    ELSE IF ~acc.header_blank
         THEN [acc EXCEPT !.contents = Append(@, txt),
                          !.origin = Append(@, <<i, j>>)]
         ELSE acc

RECURSIVE format_cols(_, _, _, _)
format_cols(row, i, j, acc) ==
    IF j > Len(row) THEN acc
    ELSE format_cols(row, i, j + 1, format_cell(acc, i, j, row[j]))

RECURSIVE format_rows(_, _, _)
format_rows(t, i, acc) ==
    IF i > Len(t) THEN acc
    ELSE format_rows(t, i + 1, format_cols(t[i], i, 1, acc))

format_table(t) ==
    format_rows(t, 1, [contents |-> <<>>, origin |-> <<>>,
                       header_blank |-> FALSE])

(***************************************************************************)
(* Inputs.                                                                  *)
(***************************************************************************)
\* sheet.iter_rows(values_only=True, min_col=1, max_col=2): a row holds at
\* most max_col cells; the formatting loop itself takes a row of any width
MaxCol == 2

\* str(cell) values: "None" (what str() makes of an empty cell), "nOnE",
\* " ", " A", "X", ">A", and "ĀAĀ"
CellValues ==
    { <<78, 111, 110, 101>>, <<110, 79, 110, 69>>, <<32>>, <<32, 65>>,
      <<88>>, <<62, 65>>, <<256, 65, 256>> }

Rows == UNION { [1..w -> CellValues] : w \in 1..MaxCol }

Tables == UNION { [1..n -> Rows] : n \in 0..MaxRows }

\* characters of the texts handed to the validator: A X > space tab \n \r
\* no-break space (U+00A0) and e-acute
Alphabet == {65, 88, 62, 32, 9, 10, 13, 160, 233}

\* "ATCG X" and ">A\n\nATCG"
Examples == { <<65, 84, 67, 71, 32, 88>>,
              <<62, 65, 10, 10, 65, 84, 67, 71>> }

Texts == UNION { [1..n -> Alphabet] : n \in 0..MaxLen } \cup Examples

(***************************************************************************)
(* main() as a state machine.                                               *)
(***************************************************************************)
Init ==
    /\ pc = "upload"
    /\ legit_file = TRUE
    /\ table = <<>>
    /\ illegal_chars_seen = FALSE
    /\ format_as_fasta = FALSE
    /\ locators = <<>>
    /\ header_blank = FALSE
    /\ fasta_contents = <<>>
    /\ origin = <<>>
    /\ fasta_str = <<>>
    /\ validated = FALSE
    /\ file_content = <<>>
    /\ issues = <<>>
    /\ okay_to_save = FALSE

\* uploaded_file is None
NoUpload ==
    /\ pc = "upload"
    /\ pc' = "format"
    /\ UNCHANGED <<legit_file, table, illegal_chars_seen, format_as_fasta,
                   locators, header_blank, fasta_contents, origin, fasta_str,
                   validated, file_content, issues, okay_to_save>>

\* load_workbook raises
BadUpload ==
    /\ pc = "upload"
    /\ legit_file' = FALSE
    /\ pc' = "format"
    /\ UNCHANGED <<table, illegal_chars_seen, format_as_fasta,
                   locators, header_blank, fasta_contents, origin, fasta_str,
                   validated, file_content, issues, okay_to_save>>

\* the workbook loads and the table is read from its active sheet
LoadTable ==
    /\ pc = "upload"
    /\ \E t \in Tables : table' = t
    /\ pc' = "screen"
    /\ UNCHANGED <<legit_file, illegal_chars_seen, format_as_fasta,
                   locators, header_blank, fasta_contents, origin, fasta_str,
                   validated, file_content, issues, okay_to_save>>

\* the screening loop and the decision that follows it
Screen ==
    /\ pc = "screen"
    /\ locators' = screen(table)
    /\ illegal_chars_seen' = (locators' # <<>>)
    /\ format_as_fasta' = ~illegal_chars_seen'
    /\ pc' = "format"
    /\ UNCHANGED <<legit_file, table, header_blank, fasta_contents, origin,
                   fasta_str, validated, file_content, issues, okay_to_save>>

\* if format_as_fasta and table: ... fasta_str = '\n'.join(fasta_contents)
Format ==
    /\ pc = "format"
    /\ IF format_as_fasta /\ table # <<>>
       THEN LET r == format_table(table) IN
            /\ fasta_contents' = r.contents
            /\ origin' = r.origin
            /\ header_blank' = r.header_blank
            /\ fasta_str' = join(r.contents)
            /\ pc' = IF r.contents # <<>> THEN "validate" ELSE "gate"
       ELSE /\ pc' = "gate"
            /\ UNCHANGED <<fasta_contents, origin, header_blank, fasta_str>>
    /\ UNCHANGED <<legit_file, table, illegal_chars_seen, format_as_fasta,
                   locators, validated, file_content, issues, okay_to_save>>

\* mutant of Validate: the test of the issue list is inverted
Validate_inverted ==
    /\ pc = "validate"
    /\ file_content' = fasta_str
    /\ issues' = check_fasta_file(fasta_str)
    /\ validated' = TRUE
    /\ okay_to_save' = (issues' # <<>>)
    /\ pc' = "gate"
    /\ UNCHANGED <<legit_file, table, illegal_chars_seen, format_as_fasta,
                   locators, header_blank, fasta_contents, origin, fasta_str>>

\* issues = check_fasta_file(fasta_str); if not issues: okay_to_save = True
Validate ==
    /\ pc = "validate"
    /\ file_content' = fasta_str
    /\ issues' = check_fasta_file(fasta_str)
    /\ validated' = TRUE
    /\ okay_to_save' = (issues' = <<>>)
    /\ pc' = "gate"
    /\ UNCHANGED <<legit_file, table, illegal_chars_seen, format_as_fasta,
                   locators, header_blank, fasta_contents, origin, fasta_str>>

Next ==
    \/ NoUpload
    \/ BadUpload
    \/ LoadTable
    \/ Screen
    \/ Format
    \/ Validate

Spec == Init /\ [][Next]_vars

(***************************************************************************)
(* check_fasta_file() on its own, one check per step, over the bounded      *)
(* texts.                                                                   *)
(***************************************************************************)
InitV ==
    /\ pc = "check_non_ascii"
    /\ file_content \in Texts
    /\ issues = <<>>
    /\ legit_file = TRUE
    /\ table = <<>>
    /\ illegal_chars_seen = FALSE
    /\ format_as_fasta = FALSE
    /\ locators = <<>>
    /\ header_blank = FALSE
    /\ fasta_contents = <<>>
    /\ origin = <<>>
    /\ fasta_str = <<>>
    /\ validated = FALSE
    /\ okay_to_save = FALSE

RunCheck(here, result, there) ==
    /\ pc = here
    /\ issues' = result
    /\ pc' = there
    /\ UNCHANGED <<legit_file, table, illegal_chars_seen, format_as_fasta,
                   locators, header_blank, fasta_contents, origin, fasta_str,
                   validated, file_content, okay_to_save>>

CheckNonAscii ==
    RunCheck("check_non_ascii", check_non_ascii(file_content, issues),
             "check_valid_sequence")

CheckValidSequence ==
    RunCheck("check_valid_sequence", check_valid_sequence(file_content, issues),
             "check_gaps")

CheckGaps ==
    RunCheck("check_gaps", check_gaps(file_content, issues),
             "check_blank_lines")

CheckBlankLines ==
    RunCheck("check_blank_lines", check_blank_lines(file_content, issues),
             "return")

NextV ==
    \/ CheckNonAscii
    \/ CheckValidSequence
    \/ CheckGaps
    \/ CheckBlankLines

SpecV == InitV /\ [][NextV]_vars

(***************************************************************************)
(* Properties of main(), checked under Spec.                                *)
(***************************************************************************)
\* the positions (row, column, character) of the table that hold a
\* character with code point above 255
IllegalPositions ==
    { p \in UNION { UNION { { <<i, j, k>> : k \in DOMAIN table[i][j] }
                            : j \in DOMAIN table[i] } : i \in DOMAIN table } :
        table[p[1]][p[2]][p[3]] > 255 }

\* a name cell that is empty or "none" in any letter case once trimmed
BlankName(col) ==
    strip(col) = <<>> \/ lower(strip(col)) = <<110, 111, 110, 101>>

\* the 1-based column of the name cell of the pair that column j belongs to
NameColumn(j) == IF j % 2 = 1 THEN j ELSE j - 1

Formatted == pc \in {"validate", "gate"} /\ format_as_fasta /\ table # <<>>

\* C1: at the end of every run, okay_to_save is true if and only if the
\* table holds no character above 255, the serializer emitted at least one
\* line, and check_fasta_file was called and returned no issue; and
\* okay_to_save is never true before that.
C1_AcceptIff ==
    /\ okay_to_save => pc = "gate"
    /\ pc = "gate" =>
          (okay_to_save <=> /\ IllegalPositions = {}
                            /\ fasta_contents # <<>>
                            /\ validated
                            /\ issues = <<>>)
    /\ (pc = "gate" /\ fasta_contents = <<>>) => ~okay_to_save
    /\ (pc = "gate" /\ validated /\ issues = <<>> /\ fasta_str # <<>>)
          => okay_to_save

\* C1 witness: a run that ends accepted and whose table has two rows
C1_Witness ==
    pc = "gate" /\ okay_to_save /\ Len(table) = 2 /\ Len(fasta_contents) = 4

\* C2: when some cell holds a character above 255, no FASTA line is ever
\* emitted, the validator is never called and nothing is accepted; and the
\* screening reports exactly one locator per such character, in row,
\* column, character-position order.
C2_ScreenGate ==
    /\ (pc # "upload" /\ IllegalPositions # {}) =>
          /\ fasta_contents = <<>>
          /\ fasta_str = <<>>
          /\ ~validated
          /\ ~okay_to_save
          /\ pc # "validate"
    /\ pc \in {"format", "validate", "gate"} =>
          /\ Len(locators) = Cardinality(IllegalPositions)
          /\ \A p \in IllegalPositions :
                \E n \in DOMAIN locators :
                    /\ <<locators[n].row, locators[n].column,
                         locators[n].character>> = p
                    /\ locators[n].symbol = table[p[1]][p[2]][p[3]]
                    /\ locators[n].cell = table[p[1]][p[2]]
          /\ \A n \in 1..(Len(locators) - 1) :
                LET a == locators[n]
                    b == locators[n + 1]
                IN \/ a.row < b.row
                   \/ a.row = b.row /\ a.column < b.column
                   \/ a.row = b.row /\ a.column = b.column
                      /\ a.character < b.character

\* C2 witness: a finished run over a table with illegal characters in two
\* cells of different rows, two of them in one cell
C2_Witness ==
    /\ pc = "gate"
    /\ Len(locators) >= 4
    /\ \E m, n \in DOMAIN locators : locators[m].row # locators[n].row

\* C3: no emitted line comes from a pair whose name cell is blank or
\* "none" (any case) once trimmed, whatever the sequence cell holds; and a
\* table without any non-blank name cell serializes to no line at all.
C3_BlankNameDropsPair ==
    Formatted =>
        /\ \A n \in DOMAIN origin :
              ~BlankName(table[origin[n][1]][NameColumn(origin[n][2])])
        /\ (\A i \in DOMAIN table : \A j \in DOMAIN table[i] :
                j % 2 = 1 => BlankName(table[i][j]))
              => (fasta_contents = <<>> /\ fasta_str = <<>>)

\* C3 witness: the first pair has the name "None" and a sequence " A",
\* the second pair has a name, and the output is only the second pair
C3_Witness ==
    /\ pc = "gate"
    /\ Len(table) = 2
    /\ table[1] = << <<78, 111, 110, 101>>, <<32, 65>> >>
    /\ Len(fasta_contents) = 2
    /\ origin = << <<2, 1>>, <<2, 2>> >>

C10_AcceptedHasSequences ==
    (pc = "gate" /\ okay_to_save) =>
        \A i \in DOMAIN table : \A j \in DOMAIN table[i] :
            (j % 2 = 1 /\ j + 1 \in DOMAIN table[i]
                       /\ ~BlankName(table[i][j])) =>
                \E n \in DOMAIN origin :
                    /\ origin[n] = <<i, j + 1>>
                    /\ fasta_contents[n] # <<>>
                    /\ \A k \in DOMAIN fasta_contents[n] :
                          is_valid_char(fasta_contents[n][k])

(***************************************************************************)
(* Properties of check_fasta_file(), checked under SpecV.                   *)
(***************************************************************************)
\* the lines of a text that is read as lines separated by "\n" alone
RECURSIVE newline_lines_from(_, _, _, _)
newline_lines_from(s, i, cur, acc) ==
    IF i > Len(s) THEN Append(acc, cur)
    ELSE IF s[i] = 10
         THEN newline_lines_from(s, i + 1, <<>>, Append(acc, cur))
         ELSE newline_lines_from(s, i + 1, Append(cur, s[i]), acc)

NewlineLines(s) == newline_lines_from(s, 1, <<>>, <<>>)

\* the issues of one check, in the order they were appended
IssuesOf(text) == SelectSeq(issues, LAMBDA x : x.Issue.text = text)

\* an issue without its running number
Unnumbered(x) == [LineNumber |-> x.LineNumber, Issue |-> x.Issue]

\* the rank of a check in the execution order
CheckRank(text) ==
    CASE text = MsgNonAscii -> 1
      [] text = MsgInvalid -> 2
      [] text = MsgGap -> 3
      [] text = MsgBlank -> 4

\* what C5 requires of the lines of a text
CleanLines(lines, text) ==
    /\ \A n \in DOMAIN lines :
          /\ strip(lines[n]) # <<>>
          /\ ~startswith_gt(lines[n]) =>
                \A k \in DOMAIN lines[n] :
                    lines[n][k] \in {65, 97, 84, 116, 67, 99, 71, 103,
                                     78, 110, 40, 41}
    /\ \A k \in DOMAIN text : text[k] <= 127

\* C5 as stated: a text whose lines, separated by "\n", are non-blank, with
\* only A,T,C,G,N,(,) on the non-header lines and no character above 127,
\* gets an empty issue list.
C5_CleanNewlineText ==
    (pc = "return" /\ CleanLines(NewlineLines(file_content), file_content))
        => issues = <<>>

\* C5 as amended: the same, with the lines taken as the validator splits
\* them, at every line boundary str.splitlines() recognises.
C5_CleanText ==
    (pc = "return" /\ CleanLines(splitlines(file_content), file_content))
        => issues = <<>>

\* C5 witness: a clean text with a header line and a sequence line
C5_Witness ==
    /\ pc = "return"
    /\ file_content = <<62, 88, 10, 65>>
    /\ issues = <<>>

\* the blank-line issues and the blank lines among the lines the
\* serializer emitted
BlankIssueLines == { issues[k].LineNumber : k \in
                       { k \in DOMAIN issues : issues[k].Issue.text = MsgBlank } }

BlankEmitted == { n \in DOMAIN fasta_contents : strip(fasta_contents[n]) = <<>> }

\* C6: the validator reports one "Blank line found" issue for every empty
\* or whitespace-only line of the FASTA text, with the line's 1-based
\* index, a blank last line included.
C6_BlankLinesCounted ==
    (pc = "gate" /\ validated) =>
        /\ Len(IssuesOf(MsgBlank)) = Cardinality(BlankEmitted)
        /\ BlankIssueLines = BlankEmitted

\* C7: issue k carries Issue Number k; the issues are grouped by check in
\* the order non-ASCII, invalid character, gap, blank line; inside a group
\* the line numbers never decrease; and every check reports what it would
\* report on its own, whatever the checks before it found.
C7_IssueOrder ==
    /\ \A k \in DOMAIN issues : issues[k].IssueNumber = k
    /\ \A k \in 1..(Len(issues) - 1) :
          LET a == issues[k]
              b == issues[k + 1]
          IN /\ CheckRank(a.Issue.text) <= CheckRank(b.Issue.text)
             /\ a.Issue.text = b.Issue.text => a.LineNumber <= b.LineNumber
    /\ pc = "return" =>
          /\ [n \in DOMAIN IssuesOf(MsgNonAscii) |->
                 Unnumbered(IssuesOf(MsgNonAscii)[n])]
             = [n \in DOMAIN check_non_ascii(file_content, <<>>) |->
                 Unnumbered(check_non_ascii(file_content, <<>>)[n])]
          /\ [n \in DOMAIN IssuesOf(MsgInvalid) |->
                 Unnumbered(IssuesOf(MsgInvalid)[n])]
             = [n \in DOMAIN check_valid_sequence(file_content, <<>>) |->
                 Unnumbered(check_valid_sequence(file_content, <<>>)[n])]
          /\ [n \in DOMAIN IssuesOf(MsgGap) |->
                 Unnumbered(IssuesOf(MsgGap)[n])]
             = [n \in DOMAIN check_gaps(file_content, <<>>) |->
                 Unnumbered(check_gaps(file_content, <<>>)[n])]
          /\ [n \in DOMAIN IssuesOf(MsgBlank) |->
                 Unnumbered(IssuesOf(MsgBlank)[n])]
             = [n \in DOMAIN check_blank_lines(file_content, <<>>) |->
                 Unnumbered(check_blank_lines(file_content, <<>>)[n])]

\* C7 witness: a finished validation in which all four checks reported
C7_Witness ==
    /\ pc = "return"
    /\ \A t \in {MsgNonAscii, MsgInvalid, MsgGap, MsgBlank} :
          IssuesOf(t) # <<>>
    /\ \E k \in DOMAIN issues :
          issues[k].Issue.text = MsgBlank /\ issues[k].LineNumber = 2

\* the lines as the validator sees them
Lines == splitlines(file_content)

\* the (1-based line, 1-based position) pairs holding a character above 127
NonAsciiPositions ==
    { p \in UNION { { <<n, k>> : k \in DOMAIN Lines[n] } : n \in DOMAIN Lines } :
        Lines[p[1]][p[2]] > 127 }

\* a line on which the sequence checks act
SequenceLine(line) == ~startswith_gt(line) /\ strip(line) # <<>>

\* the line with its surrounding whitespace trimmed and its spaces and
\* tabs removed
Degapped(line) == SelectSeq(strip(line), LAMBDA c : c # 32 /\ c # 9)

\* the line with its spaces and tabs removed
WithoutGaps(line) == SelectSeq(line, LAMBDA c : c # 32 /\ c # 9)

InvalidPositions(seq) ==
    { k \in DOMAIN seq : seq[k] \notin {65, 97, 84, 116, 67, 99, 71, 103,
                                        78, 110, 40, 41} }

\* the issues of one check reported for one line number
IssuesAt(text, n) ==
    SelectSeq(issues, LAMBDA x : x.Issue.text = text /\ x.LineNumber = n)

\* C8: the non-ASCII check reports every character above 127 of every line
\* exactly once, under the line's 0-based index and the character's 1-based
\* position; the other three checks report a line under its 1-based index.
C8_LineNumberBases ==
    /\ pc # "check_non_ascii" =>
          /\ Len(IssuesOf(MsgNonAscii)) = Cardinality(NonAsciiPositions)
          /\ \A p \in NonAsciiPositions :
                \E k \in DOMAIN issues :
                    /\ issues[k].Issue.text = MsgNonAscii
                    /\ issues[k].LineNumber = p[1] - 1
                    /\ issues[k].Issue.position = p[2]
                    /\ issues[k].Issue.char = Lines[p[1]][p[2]]
    /\ pc = "return" =>
          \A n \in DOMAIN Lines :
              /\ IssuesAt(MsgBlank, n) # <<>> <=> strip(Lines[n]) = <<>>
              /\ IssuesAt(MsgGap, n) # <<>>
                    <=> (SequenceLine(Lines[n]) /\ has_gap(Lines[n]))
              /\ IssuesAt(MsgInvalid, n) # <<>>
                    <=> (SequenceLine(Lines[n])
                         /\ InvalidPositions(Degapped(Lines[n])) # {})
    /\ \A k \in DOMAIN issues :
          issues[k].Issue.text # MsgNonAscii
              => issues[k].LineNumber \in DOMAIN Lines

\* C8 witness: a character above 127 on the first line, reported as line 0
\* by the non-ASCII check and as line 1 by the invalid-character check
C8_Witness ==
    /\ pc = "return"
    /\ \E k \in DOMAIN issues :
          issues[k].Issue.text = MsgNonAscii /\ issues[k].LineNumber = 0
    /\ \E k \in DOMAIN issues :
          issues[k].Issue.text = MsgInvalid /\ issues[k].LineNumber = 1
    /\ \E k \in DOMAIN issues :
          issues[k].Issue.text = MsgNonAscii /\ issues[k].LineNumber = 1

\* a sequence line with a gap and a character that is neither whitespace
\* nor one of A,T,C,G,N,(,)
GappedInvalidLine(line) ==
    /\ SequenceLine(line)
    /\ has_gap(line)
    /\ \E k \in DOMAIN line :
          line[k] \notin WhiteSpace /\ InvalidPositions(<<line[k]>>) # {}

\* what C9 says of the issues of line n, the positions being those in seq
GapAndInvalidIssues(n, seq) ==
    /\ Len(IssuesAt(MsgGap, n)) = 1
    /\ Len(IssuesAt(MsgInvalid, n)) = Cardinality(InvalidPositions(seq))
    /\ \A p \in InvalidPositions(seq) :
          \E k \in DOMAIN IssuesAt(MsgInvalid, n) :
              /\ IssuesAt(MsgInvalid, n)[k].Issue.position = p
              /\ IssuesAt(MsgInvalid, n)[k].Issue.char = seq[p]
    /\ \A k \in DOMAIN IssuesAt(MsgInvalid, n) :
          IssuesAt(MsgInvalid, n)[k].Issue.char \notin {32, 9}

\* "ATCG X": one invalid-character issue for X at position 5, one gap issue
AtcgXIssues ==
    file_content = <<65, 84, 67, 71, 32, 88>> =>
        issues = << [IssueNumber |-> 1, LineNumber |-> 1,
                     Issue |-> [text |-> MsgInvalid, char |-> 88,
                                position |-> 5]],
                    [IssueNumber |-> 2, LineNumber |-> 1,
                     Issue |-> [text |-> MsgGap, char |-> 0,
                                position |-> 0]] >>

====
